---- MODULE Spec2Model ----
(***************************************************************************)
(* organize_duplicates (src/deduplicate.py): exact-duplicate detection by  *)
(* MD5, consolidation under sequential names, perceptual-hash clustering,  *)
(* and the index files it writes into the audit directory.                 *)
(*                                                                         *)
(* A file name is the record [stem, ext] that os.path.splitext yields; a   *)
(* path is [dir, name].  A directory is a function from names to file      *)
(* contents; a file's content is a sequence of chunks (the bytes a copy    *)
(* put there, the text lines appended to it).                              *)
(***************************************************************************)
EXTENDS Integers, Sequences, FiniteSets, TLC

\* ---------------------------------------------------------------- bounds
MaxFiles == 3        \* files in the source tree of a single invocation
MaxImages == 4       \* files in a source tree of image-named files
MaxRerunFiles == 2   \* files in the source tree when invocations repeat
MaxRuns == 2         \* invocations into the same audit directory
MaxFailFiles == 3    \* files in the source tree when reads and writes fail
MaxNameFiles == 3    \* files in a source tree of variously named files
MaxUploadFiles == 3  \* files under the directory that is uploaded
MaxBatch == 2        \* batch_size of an upload
MaxDuration == 2     \* session_duration, in units of the clock
MaxTarget == 2       \* target_count
MaxTerms == 2        \* search terms
MaxStep == 2         \* clock units one download activity and its sleep take

\* ------------------------------------------------------- program constants
threshold == 5       \* deduplicate.py:184

image_extensions == {".jpg", ".jpeg", ".png", ".gif", ".bmp", ".tiff", ".webp"}

\* ------------------------------------------------------------ the inputs
\* File contents are blobs.  Blobs 1, 2, 3 and 5 decode as images, blob 4
\* does not.
Blobs == {1, 2, 3, 4, 5}
RerunBlobs == {1, 2}
Exts == {".jpg", ".txt"}
ImageExts == {".jpg"}

\* PIL's Image.open succeeds on the content.
Decodable(b) == b \in {1, 2, 3, 5}

\* imagehash.phash of a decodable content: the set of bits that are 1 in
\* the 64-bit fingerprint.  Blobs 1 and 2 are 3 bits apart, 2 and 3 are 5
\* apart, 1 and 3 are 8 apart, and blob 5 is at least 9 from the others.
Phash(b) ==
  CASE b = 1 -> {}
    [] b = 2 -> {1, 2, 3}
    [] b = 3 -> {1, 2, 3, 4, 5, 6, 7, 8}
    [] b = 5 -> {4, 5, 6, 7, 8, 9, 10, 11, 12, 13, 14}
    [] OTHER -> {}

\* ImageHash.__sub__: the number of differing bits.
Distance(h1, h2) == Cardinality((h1 \ h2) \cup (h2 \ h1))

\* hashlib.md5(...).hexdigest(): equal content, equal digest; distinct
\* contents of the model get distinct digests.
Md5(b) == <<"md5", b>>

\* str.lower on an extension.
Lower(e) ==
  CASE e = ".JPG" -> ".jpg"
    [] e = ".PNG" -> ".png"
    [] OTHER -> e

\* f"{n:05d}"
Format05(n) ==
  IF n < 10 THEN "0000" \o ToString(n)
  ELSE IF n < 100 THEN "000" \o ToString(n)
  ELSE IF n < 1000 THEN "00" \o ToString(n)
  ELSE IF n < 10000 THEN "0" \o ToString(n)
  ELSE ToString(n)

Name(s, e) == [stem |-> s, ext |-> e]
OriginalPathsTxt == Name("original_paths", ".txt")

\* os.path.basename and os.path.splitext of a path.
Basename(p) == p.name
Splitext(n) == <<n.stem, n.ext>>

\* The i-th file the walk yields: the files of a tree lie in directories
\* of their own.
SourceFile(i, n, b, r) ==
  [path |-> [dir |-> i, name |-> n], bytes |-> b, readable |-> r]

\* Files of different directories may bear one base name: the trees use
\* "img" under each extension, so that the copies of a group collide.
ImgNames(exts) == {Name("img", e) : e \in exts}

\* An unreadable file's bytes are never seen by the program: one
\* representative content stands for them.
FileChoices(i, names, blobs, unreadable) ==
  {SourceFile(i, n, b, TRUE) : n \in names, b \in blobs}
    \cup (IF unreadable THEN {SourceFile(i, n, 1, FALSE) : n \in names} ELSE {})

\* The files of a tree that is organized more than once: among them one
\* that bears the name of the groups' index file.
RerunChoices(i) ==
  FileChoices(i, ImgNames(Exts), RerunBlobs, FALSE)
    \cup {SourceFile(i, OriginalPathsTxt, 1, TRUE)}

RECURSIVE Trees(_, _, _, _)
\* The source trees of exactly n files, in walk order.
Trees(n, names, blobs, unreadable) ==
  IF n = 0 THEN {<<>>}
  ELSE {Append(t, f) : t \in Trees(n - 1, names, blobs, unreadable),
                       f \in FileChoices(n, names, blobs, unreadable)}

TreesUpTo(n, names, blobs, unreadable) ==
  UNION {Trees(k, names, blobs, unreadable) : k \in 0..n}

RECURSIVE RerunTrees(_)
RerunTrees(n) ==
  IF n = 0 THEN {<<>>}
  ELSE {Append(t, f) : t \in RerunTrees(n - 1), f \in RerunChoices(n)}

\* ------------------------------------------------------------- the state
VARIABLES
  tree,              \* the source tree, in os.walk order
  consolidated,      \* consolidated_files/: name -> content (data files)
  dupIndex,          \* consolidated_files/duplicates_index.txt: blocks
  masterIndex,       \* consolidated_files/master_file_index.txt: entries
  exactDirs,         \* exact_duplicates/group_N: Seq of directories
  similarDirs,       \* similar_files/similar_group_N: Seq of directories
  pc,                \* where organize_duplicates stands
  i,                 \* the index of the loop in progress
  hashes,            \* dict digest -> paths, in insertion order
  exact_dup_groups,
  processed_hashes,
  file_counter,
  file_mapping,      \* dict consolidated_dest -> originals, in insertion order
  exact_dup_files,
  image_hashes,
  similar_groups,
  result,            \* the value returned; -1 while running
  run,               \* the number of the invocation
  before,            \* the index files as they stood when the invocation began
  up,                \* upload_to_huggingface: its position and what it committed
  sc                 \* RobustImageScraper.crawl_images: its position and clock

vars == <<tree, consolidated, dupIndex, masterIndex, exactDirs, similarDirs,
          pc, i, hashes, exact_dup_groups, processed_hashes, file_counter,
          file_mapping, exact_dup_files, image_hashes, similar_groups,
          result, run, before, up, sc>>

\* The state of the two collaborators, which organize_duplicates leaves alone.
others == <<up, sc>>

outputs == <<consolidated, dupIndex, masterIndex, exactDirs, similarDirs>>
locals == <<hashes, exact_dup_groups, processed_hashes, file_counter,
            file_mapping, exact_dup_files, image_hashes, similar_groups>>

\* ------------------------------------------------------ helper operators
Range(s) == {s[k] : k \in DOMAIN s}

\* The file of the tree at a path (paths of a tree are distinct).
FileAt(p) == CHOOSE f \in Range(tree) : f.path = p

\* Index of a key in an insertion-ordered dict, 0 when absent.
KeyIndex(d, key) ==
  IF \E k \in DOMAIN d : d[k].key = key
  THEN CHOOSE k \in DOMAIN d : d[k].key = key
  ELSE 0

\* d[key] = val: a new key goes last, an old key keeps its place.
DictSet(d, key, val) ==
  IF KeyIndex(d, key) = 0
  THEN Append(d, [key |-> key, val |-> val])
  ELSE [d EXCEPT ![KeyIndex(d, key)].val = val]

\* The path put at the head of the list.
DictAppend_Prepend(d, key, x) ==
  IF KeyIndex(d, key) = 0
  THEN Append(d, [key |-> key, val |-> <<x>>])
  ELSE [d EXCEPT ![KeyIndex(d, key)].val = <<x>> \o @]

\* hashes[file_hash].append(filepath), creating the list when needed.
DictAppend(d, key, x) ==
  IF KeyIndex(d, key) = 0
  THEN Append(d, [key |-> key, val |-> <<x>>])
  ELSE [d EXCEPT ![KeyIndex(d, key)].val = Append(@, x)]

\* shutil.copy2(src, dir/name): the destination holds the source's bytes.
CopyInto(dir, name, b) ==
  [n \in DOMAIN dir \cup {name} |->
     IF n = name THEN <<[kind |-> "data", bytes |-> b]>> ELSE dir[n]]

\* The line written to a file opened with mode "w".
AppendLine_Truncate(dir, name, line) ==
  [n \in DOMAIN dir \cup {name} |-> IF n = name THEN <<line>> ELSE dir[n]]

\* open(dir/name, "a").write(line)
AppendLine(dir, name, line) ==
  [n \in DOMAIN dir \cup {name} |->
     IF n = name
     THEN (IF name \in DOMAIN dir THEN Append(dir[name], line) ELSE <<line>>)
     ELSE dir[n]]

EmptyDir == [n \in {} |-> <<>>]

\* RobustImageScraper before it is constructed: its parameters, the
\* seconds since start_time, the position in the loops of crawl_images,
\* and the download activities started with the time each began.
ScraperIdle ==
  [pc |-> "idle", session_duration |-> 1, target_count |-> 1, terms |-> 1,
   elapsed |-> 0, term |-> 0, engine |-> 0, success_count |-> 0,
   started |-> {}]

\* upload_to_huggingface before it is called: the files of the walk, the
\* image files among them, the batches tried, and its return value.
UploaderIdle ==
  [pc |-> "idle", listing |-> <<>>, batch_size |-> 1, image_files |-> <<>>,
   total_batches |-> 0, batch_idx |-> 0, attempts |-> <<>>, ret |-> "none"]

Init0(trees) ==
  /\ tree \in trees
  /\ consolidated = EmptyDir
  /\ dupIndex = <<>>
  /\ masterIndex = <<>>
  /\ exactDirs = <<>>
  /\ similarDirs = <<>>
  /\ pc = "init"
  /\ i = 0
  /\ hashes = <<>>
  /\ exact_dup_groups = <<>>
  /\ processed_hashes = {}
  /\ file_counter = 0
  /\ file_mapping = <<>>
  /\ exact_dup_files = {}
  /\ image_hashes = <<>>
  /\ similar_groups = <<>>
  /\ result = -1
  /\ run = 1
  /\ before = [dupIndex |-> <<>>, masterIndex |-> <<>>,
               exactDirs |-> <<>>, similarDirs |-> <<>>]
  /\ up = UploaderIdle
  /\ sc = ScraperIdle

Init == Init0(TreesUpTo(MaxFiles, ImgNames(Exts), Blobs, TRUE))

\* --------------------------------------------------------------- actions
\* Lines 27-39: the output roots exist from here on; the first walk begins.
MakeDirs ==
  /\ pc = "init"
  /\ pc' = "exact_scan"
  /\ i' = 1
  /\ hashes' = <<>>
  /\ UNCHANGED <<tree, outputs, exact_dup_groups, processed_hashes,
                 file_counter, file_mapping, exact_dup_files, image_hashes,
                 similar_groups, result, run, before, others>>

\* The walk keeping only the last path of a digest.
ScanFile_Overwrite(h, f) ==
  IF f.readable THEN DictSet(h, Md5(f.bytes), <<f.path>>) ELSE h

\* hashes after the walk has seen file f (lines 47-55): an unreadable
\* file raises inside the try and is skipped with a warning.
ScanFile(h, f) ==
  IF f.readable THEN DictAppend(h, Md5(f.bytes), f.path) ELSE h

\* Lines 41-55, one file of the walk.
ExactScanStep ==
  /\ pc = "exact_scan"
  /\ i <= Len(tree)
  /\ hashes' = ScanFile(hashes, tree[i])
  /\ i' = i + 1
  /\ UNCHANGED <<tree, outputs, pc, exact_dup_groups, processed_hashes,
                 file_counter, file_mapping, exact_dup_files, image_hashes,
                 similar_groups, result, run, before, others>>

\* [paths for paths in hashes.values() if len(paths) > 1]
ExactGroupsOf(h) ==
  LET multi == SelectSeq(h, LAMBDA e : Len(e.val) > 1)
  IN [k \in DOMAIN multi |-> multi[k].val]

\* Lines 57-66, when the walk is over.
FindExactGroups ==
  /\ pc = "exact_scan"
  /\ i > Len(tree)
  /\ exact_dup_groups' = ExactGroupsOf(hashes)
  /\ processed_hashes' = {}
  /\ file_counter' = 1
  /\ file_mapping' = <<>>
  /\ pc' = "exact_materialize"
  /\ i' = 1
  /\ UNCHANGED <<tree, outputs, hashes, exact_dup_files, image_hashes,
                 similar_groups, result, run, before, others>>

\* The destination name of member j (0-based) of a group copied into dir
\* (lines 102-108): the base name, or with "<tag><j>" before the extension
\* when a file of that name is already there.
DestName(dir, filepath, j, tag) ==
  LET filename == Basename(filepath)
      name == Splitext(filename)[1]
      ext == Splitext(filename)[2]
  IN IF filename \in DOMAIN dir
     THEN Name(name \o tag \o ToString(j), ext)
     ELSE filename

RECURSIVE CopyMembers(_, _, _, _)
\* Lines 101-114 (and 211-224): members j.. of the group are copied into
\* dir, each followed by its line of original_paths.txt.
CopyMembers(dir, group, j, tag) ==
  IF j >= Len(group) THEN dir
  ELSE LET filepath == group[j + 1]
           dest == DestName(dir, filepath, j, tag)
           copied == CopyInto(dir, dest, FileAt(filepath).bytes)
           logged == AppendLine(copied, OriginalPathsTxt,
                       [kind |-> "line", dest |-> dest, orig |-> filepath])
       IN CopyMembers(logged, group, j + 1, tag)

\* os.makedirs(group_dir, exist_ok=True), then the copies: the directories
\* group_1.. are created in order, so a new one is the next of the sequence.
MaterializeGroup(dirs, n, group, tag) ==
  IF n <= Len(dirs)
  THEN [dirs EXCEPT ![n] = CopyMembers(dirs[n], group, 0, tag)]
  ELSE Append(dirs, CopyMembers(EmptyDir, group, 0, tag))

\* f"{file_counter:05d}{original_ext}" (lines 81-82, 122-123)
NewFilename(counter, filepath) ==
  Name(Format05(counter), Splitext(Basename(filepath))[2])

\* The counter stepping by 2.
NextCounter_Skip(c) == c + 2

\* file_counter += 1 (lines 83, 124)
NextCounter(c) == c + 1

\* The block written to a file opened with mode "w".
AppendBlock_Truncate(index, block) == <<block>>

\* Lines 92-98: the block is written to a file opened with mode "a".
AppendBlock(index, block) == Append(index, block)

\* Every member of the group can be read: open (line 74) and shutil.copy2
\* (lines 86, 110, 127, 220) raise on a file that cannot.
AllReadable(group) == \A k \in DOMAIN group : FileAt(group[k]).readable

\* Lines 68-114, one group.
ExactMaterializeStep ==
  /\ pc = "exact_materialize"
  /\ i <= Len(exact_dup_groups)
  /\ AllReadable(exact_dup_groups[i])
  /\ LET group == exact_dup_groups[i]
         group_hash == Md5(FileAt(group[1]).bytes)
         first_file == group[1]
         new_filename == NewFilename(file_counter, first_file)
     IN /\ processed_hashes' = processed_hashes \cup {group_hash}
        /\ file_counter' = NextCounter(file_counter)
        /\ consolidated' =
             CopyInto(consolidated, new_filename, FileAt(first_file).bytes)
        /\ file_mapping' = DictSet(file_mapping, new_filename, group)
        /\ dupIndex' = AppendBlock(dupIndex,
             [file |-> new_filename, hash |-> group_hash, dups |-> group])
        /\ exactDirs' = MaterializeGroup(exactDirs, i, group, "_dup")
  /\ i' = i + 1
  /\ UNCHANGED <<tree, masterIndex, similarDirs, pc, hashes, exact_dup_groups,
                 exact_dup_files, image_hashes, similar_groups, result, run,
                 before, others>>

\* Lines 116-117, when every group is materialized.
StartConsolidate ==
  /\ pc = "exact_materialize"
  /\ i > Len(exact_dup_groups)
  /\ pc' = "consolidate"
  /\ i' = 1
  /\ UNCHANGED <<tree, outputs, locals, result, run, before, others>>

\* The test of line 120 without its two conditions.
IsUnique_Always(entry, processed) == Len(entry.val) >= 1

\* Line 120: the digest has one path and was not consolidated with a group.
IsUnique(entry, processed) ==
  Len(entry.val) = 1 /\ entry.key \notin processed

\* Lines 119-133, one item of hashes.
ConsolidateStep ==
  /\ pc = "consolidate"
  /\ i <= Len(hashes)
  /\ IsUnique(hashes[i], processed_hashes) => AllReadable(hashes[i].val)
  /\ IF IsUnique(hashes[i], processed_hashes)
     THEN LET filepath == hashes[i].val[1]
              new_filename == NewFilename(file_counter, filepath)
          IN /\ file_counter' = NextCounter(file_counter)
             /\ consolidated' =
                  CopyInto(consolidated, new_filename, FileAt(filepath).bytes)
             /\ file_mapping' = DictSet(file_mapping, new_filename, <<filepath>>)
             /\ processed_hashes' = processed_hashes \cup {hashes[i].key}
     ELSE UNCHANGED <<file_counter, consolidated, file_mapping,
                      processed_hashes>>
  /\ i' = i + 1
  /\ UNCHANGED <<tree, dupIndex, masterIndex, exactDirs, similarDirs, pc,
                 hashes, exact_dup_groups, exact_dup_files, image_hashes,
                 similar_groups, result, run, before, others>>

\* The entries written for file_mapping.items() (lines 140-144); the two
\* header lines, the same in every run, are left out.
MasterEntries(mapping) ==
  [k \in DOMAIN mapping |-> [file |-> mapping[k].key, origs |-> mapping[k].val]]

\* The entries written to a file opened with mode "a".
WriteMaster_Append(old, mapping) == old \o MasterEntries(mapping)

\* Line 136: master_file_index.txt is opened with mode "w".
WriteMaster(old, mapping) == MasterEntries(mapping)

\* The master index written at any point of the loop over hashes.
WriteMasterIndex_BeforeUniques ==
  /\ pc = "consolidate"
  /\ masterIndex' = WriteMaster(masterIndex, file_mapping)
  /\ pc' = "similarity_gate"
  /\ UNCHANGED <<tree, consolidated, dupIndex, exactDirs, similarDirs, i,
                 locals, result, run, before, others>>

\* Lines 135-144, when every item of hashes was visited.
WriteMasterIndex ==
  /\ pc = "consolidate"
  /\ i > Len(hashes)
  /\ masterIndex' = WriteMaster(masterIndex, file_mapping)
  /\ pc' = "similarity_gate"
  /\ UNCHANGED <<tree, consolidated, dupIndex, exactDirs, similarDirs, i,
                 locals, result, run, before, others>>

\* The check without .lower(): the extension is compared as it is.
has_image_files_CaseSensitive(t) ==
  \E k \in DOMAIN t : Splitext(Basename(t[k].path))[2] \in image_extensions

\* has_image_files (lines 234-251): some file of the walk has an image
\* extension, whatever its case.
has_image_files(t) ==
  \E k \in DOMAIN t :
    Lower(Splitext(Basename(t[k].path))[2]) \in image_extensions

\* Lines 151-154.
ExactDupFiles(groups) == UNION {Range(groups[k]) : k \in DOMAIN groups}

\* Lines 146-158 when the check succeeds; else the function goes on to
\* line 226.
SimilarityGate ==
  /\ pc = "similarity_gate"
  /\ IF has_image_files(tree)
     THEN /\ exact_dup_files' = ExactDupFiles(exact_dup_groups)
          /\ image_hashes' = <<>>
          /\ pc' = "similarity_scan"
          /\ i' = 1
     ELSE /\ pc' = "return"
          /\ UNCHANGED <<exact_dup_files, image_hashes, i>>
  /\ UNCHANGED <<tree, outputs, hashes, exact_dup_groups, processed_hashes,
                 file_counter, file_mapping, similar_groups, result, run,
                 before, others>>

\* The second walk without the filter of line 165.
SkipExact_Never(f, exact) == FALSE

\* Line 165: the file is skipped, being in an exact-duplicate group.
SkipExact(f, exact) == f.path \in exact

\* The second walk without the try of lines 167-178 failing: any file that
\* opens is given a fingerprint.
HashImage_AnyContent(ih, f, exact) ==
  IF SkipExact(f, exact) THEN ih
  ELSE IF f.readable
       THEN Append(ih, [h |-> Phash(f.bytes), path |-> f.path])
       ELSE ih

\* image_hashes after the second walk has seen file f (lines 162-178): a
\* file that cannot be opened or decoded raises inside the try.
HashImage(ih, f, exact) ==
  IF SkipExact(f, exact) THEN ih
  ELSE IF f.readable /\ Decodable(f.bytes)
       THEN Append(ih, [h |-> Phash(f.bytes), path |-> f.path])
       ELSE ih

\* Lines 160-178, one file of the walk.
SimilarityScanStep ==
  /\ pc = "similarity_scan"
  /\ i <= Len(tree)
  /\ image_hashes' = HashImage(image_hashes, tree[i], exact_dup_files)
  /\ i' = i + 1
  /\ UNCHANGED <<tree, outputs, pc, hashes, exact_dup_groups,
                 processed_hashes, file_counter, file_mapping,
                 exact_dup_files, similar_groups, result, run, before, others>>

\* The test with a threshold of 8.
Similar_Loose(h1, h2) == Distance(h1, h2) <= threshold + 3

\* Line 196: h1 - h2 <= threshold
Similar(h1, h2) == Distance(h1, h2) <= threshold

RECURSIVE InnerLoop(_, _, _, _, _)
\* Lines 192-198 from position k on: the group of seed h1 and the set
\* checked when the loop ends.
InnerLoop(ih, h1, k, group, checked) ==
  IF k > Len(ih) THEN [group |-> group, checked |-> checked]
  ELSE IF ih[k].path \in checked THEN InnerLoop(ih, h1, k + 1, group, checked)
  ELSE IF Similar(h1, ih[k].h)
       THEN InnerLoop(ih, h1, k + 1, Append(group, ih[k].path),
                      checked \cup {ih[k].path})
       ELSE InnerLoop(ih, h1, k + 1, group, checked)

RECURSIVE OuterLoop(_, _, _, _)
\* Lines 186-202 from position k on.
OuterLoop(ih, k, groups, checked) ==
  IF k > Len(ih) THEN groups
  ELSE IF ih[k].path \in checked THEN OuterLoop(ih, k + 1, groups, checked)
  ELSE LET r == InnerLoop(ih, ih[k].h, k + 1, <<ih[k].path>>, checked)
       IN IF Len(r.group) > 1
          THEN OuterLoop(ih, k + 1, Append(groups, r.group),
                         r.checked \cup {ih[k].path})
          ELSE OuterLoop(ih, k + 1, groups, r.checked)

\* Lines 180-202: similar_groups for the collected hashes.
SimilarGroupsOf(ih) == OuterLoop(ih, 1, <<>>, {})

\* Lines 180-205, when the second walk is over.
Cluster ==
  /\ pc = "similarity_scan"
  /\ i > Len(tree)
  /\ similar_groups' = SimilarGroupsOf(image_hashes)
  /\ pc' = "similarity_materialize"
  /\ i' = 1
  /\ UNCHANGED <<tree, outputs, hashes, exact_dup_groups, processed_hashes,
                 file_counter, file_mapping, exact_dup_files, image_hashes,
                 result, run, before, others>>

\* Lines 207-224, one group.
SimilarMaterializeStep ==
  /\ pc = "similarity_materialize"
  /\ i <= Len(similar_groups)
  /\ AllReadable(similar_groups[i])
  /\ similarDirs' = MaterializeGroup(similarDirs, i, similar_groups[i], "_similar")
  /\ i' = i + 1
  /\ UNCHANGED <<tree, consolidated, dupIndex, masterIndex, exactDirs, pc,
                 locals, result, run, before, others>>

\* The counter returned as it is.
ReturnValue_Counter(counter) == counter

\* Line 232: return file_counter - 1
ReturnValue(counter) == counter - 1

\* Lines 226-232.
Return ==
  /\ \/ pc = "return"
     \/ pc = "similarity_materialize" /\ i > Len(similar_groups)
  /\ result' = ReturnValue(file_counter)
  /\ pc' = "done"
  /\ UNCHANGED <<tree, outputs, i, locals, run, before, others>>

\* One invocation of organize_duplicates.
Next ==
  \/ MakeDirs
  \/ ExactScanStep
  \/ FindExactGroups
  \/ ExactMaterializeStep
  \/ StartConsolidate
  \/ ConsolidateStep
  \/ WriteMasterIndex
  \/ SimilarityGate
  \/ SimilarityScanStep
  \/ Cluster
  \/ SimilarMaterializeStep
  \/ Return

Spec == Init /\ [][Next]_vars

\* One invocation on a tree of readable files that all carry an image
\* extension.
InitImages == Init0(TreesUpTo(MaxImages, ImgNames(ImageExts), Blobs, FALSE))

SpecImages == InitImages /\ [][Next]_vars

\* One invocation on a tree of readable files whose base names differ in
\* stem and extension: a name of the form the collision rename produces, an
\* upper-case image extension, and the name of the per-group record.
NameBlobs == {1, 2}

SourceNames ==
  {Name("img", ".jpg"), Name("img_dup2", ".jpg"), Name("img", ".JPG"),
   OriginalPathsTxt}

InitNames == Init0(TreesUpTo(MaxNameFiles, SourceNames, NameBlobs, FALSE))

SpecNames == InitNames /\ [][Next]_vars

\* ------------------------------------------- repeated invocations
\* The source tree between two invocations: as it was, or with one file
\* replaced, the last file gone, or one file more.
Changed(t) ==
  {t}
    \cup UNION {{[t EXCEPT ![k] = f] : f \in RerunChoices(k)} :
                  k \in DOMAIN t}
    \cup (IF Len(t) > 0 THEN {SubSeq(t, 1, Len(t) - 1)} ELSE {})
    \cup (IF Len(t) < MaxRerunFiles
          THEN {Append(t, f) : f \in RerunChoices(Len(t) + 1)}
          ELSE {})

\* organize_duplicates is called again with the same output_base_dir
\* (main.py:95 run once more): its locals are new, the audit directory is
\* as the last invocation left it.
Reinvoke ==
  /\ pc = "done"
  /\ run < MaxRuns
  /\ tree' \in Changed(tree)
  /\ run' = run + 1
  /\ before' = [dupIndex |-> dupIndex, masterIndex |-> masterIndex,
                exactDirs |-> exactDirs, similarDirs |-> similarDirs]
  /\ pc' = "init"
  /\ i' = 0
  /\ hashes' = <<>>
  /\ exact_dup_groups' = <<>>
  /\ processed_hashes' = {}
  /\ file_counter' = 0
  /\ file_mapping' = <<>>
  /\ exact_dup_files' = {}
  /\ image_hashes' = <<>>
  /\ similar_groups' = <<>>
  /\ result' = -1
  /\ UNCHANGED <<outputs, others>>

InitRerun == Init0(UNION {RerunTrees(n) : n \in 0..MaxRerunFiles})

NextRerun == Next \/ Reinvoke

SpecRerun == InitRerun /\ [][NextRerun]_vars

\* ------------------------------------------------------- failing runs
\* The contents a source file may have when reads and writes can fail.
FailBlobs == {1, 2}

\* A source file is deleted, or loses its read permission, while the run
\* is under way (the files are those of a scraper's output directory).
Vanish ==
  /\ pc \notin {"done", "read_error", "write_error"}
  /\ \E k \in DOMAIN tree :
       /\ tree[k].readable
       /\ tree' = [tree EXCEPT ![k].readable = FALSE]
  /\ UNCHANGED <<outputs, pc, i, locals, result, run, before, others>>

\* The first member of the group that cannot be read.
FirstUnreadable(group) ==
  CHOOSE k \in DOMAIN group :
    /\ ~FileAt(group[k]).readable
    /\ \A j \in 1..(k - 1) : FileAt(group[j]).readable

\* What an exception leaves of the files written so far, given what was
\* there when the step began and what the step wrote before the exception:
\* one with every file of the audit directory removed.
Kept_Cleanup(old, new) == <<>>

\* What an exception leaves of the files written so far, given what was
\* there when the step began and what the step wrote before the exception:
\* lines 68-224 have no except and no finally around a write, so all of it.
Kept(old, new) == new

\* The output files as they are.
Written ==
  [consolidated |-> consolidated, dupIndex |-> dupIndex,
   masterIndex |-> masterIndex, exactDirs |-> exactDirs,
   similarDirs |-> similarDirs]

\* The writes of lines 68-114 for group i, in order: makedirs (71), the
\* copy into consolidated_files (86), the block of duplicates_index.txt
\* (92-98), then one copy and one line per member (101-114).  These are the
\* output files after the first w of them.
ExactStepPrefix(w) ==
  LET group == exact_dup_groups[i]
      first_file == group[1]
      new_filename == NewFilename(file_counter, first_file)
      members == IF w > 3 THEN SubSeq(group, 1, w - 3) ELSE <<>>
  IN [Written EXCEPT
        !.consolidated =
          IF w >= 2
          THEN CopyInto(consolidated, new_filename, FileAt(first_file).bytes)
          ELSE consolidated,
        !.dupIndex =
          IF w >= 3
          THEN AppendBlock(dupIndex,
                 [file |-> new_filename,
                  hash |-> Md5(FileAt(first_file).bytes), dups |-> group])
          ELSE dupIndex,
        !.exactDirs =
          IF w >= 1
          THEN MaterializeGroup(exactDirs, i, members, "_dup")
          ELSE exactDirs]

\* master_file_index.txt when the open of line 136 raises (w = 0), or
\* when it has truncated the file and the write of entry w raises.
MasterPrefix(w) ==
  [Written EXCEPT
     !.masterIndex =
       IF w = 0 THEN masterIndex
       ELSE SubSeq(WriteMaster(masterIndex, file_mapping), 1, w - 1)]

\* The writes of lines 207-224 for group i, in order: makedirs (209), then
\* one copy and one line per member.  The output files after the first w.
SimilarStepPrefix(w) ==
  [Written EXCEPT
     !.similarDirs =
       IF w >= 1
       THEN MaterializeGroup(similarDirs, i,
                             SubSeq(similar_groups[i], 1, w - 1), "_similar")
       ELSE similarDirs]

\* The exception leaves organize_duplicates with the output files at out:
\* nothing of the function runs after it, and its locals are out of reach
\* (they stay as the last completed step left them).
Raised(kind, out) ==
  /\ pc' = kind
  /\ consolidated' = Kept(consolidated, out.consolidated)
  /\ dupIndex' = Kept(dupIndex, out.dupIndex)
  /\ masterIndex' = Kept(masterIndex, out.masterIndex)
  /\ exactDirs' = Kept(exactDirs, out.exactDirs)
  /\ similarDirs' = Kept(similarDirs, out.similarDirs)
  /\ UNCHANGED <<tree, i, locals, result, run, before, others>>

\* open(group[0], 'rb') at line 74 or shutil.copy2 at lines 86, 110, 127
\* and 220 raises on a source file that cannot be read; none is inside a
\* try.
SourceReadFails ==
  \/ /\ pc = "exact_materialize"
     /\ i <= Len(exact_dup_groups)
     /\ ~AllReadable(exact_dup_groups[i])
     /\ LET m == FirstUnreadable(exact_dup_groups[i])
        IN Raised("read_error",
                  ExactStepPrefix(IF m = 1 THEN 1 ELSE 3 + (m - 1)))
  \/ /\ pc = "consolidate"
     /\ i <= Len(hashes)
     /\ IsUnique(hashes[i], processed_hashes)
     /\ ~AllReadable(hashes[i].val)
     /\ Raised("read_error", Written)
  \/ /\ pc = "similarity_materialize"
     /\ i <= Len(similar_groups)
     /\ ~AllReadable(similar_groups[i])
     /\ Raised("read_error",
               SimilarStepPrefix(FirstUnreadable(similar_groups[i])))

\* A write raises OSError (disk full, permission, read-only file system):
\* os.makedirs at lines 32-34, 71 and 209, shutil.copy2, or the open and
\* write of an index file.  The writes of the step made before it stay.
WriteFails ==
  \/ /\ pc = "init"
     /\ Raised("write_error", Written)
  \/ /\ pc = "exact_materialize"
     /\ i <= Len(exact_dup_groups)
     /\ AllReadable(exact_dup_groups[i])
     /\ \E w \in 0..(2 + Len(exact_dup_groups[i])) :
          Raised("write_error", ExactStepPrefix(w))
  \/ /\ pc = "consolidate"
     /\ i <= Len(hashes)
     /\ IsUnique(hashes[i], processed_hashes)
     /\ AllReadable(hashes[i].val)
     /\ Raised("write_error", Written)
  \/ /\ pc = "consolidate"
     /\ i > Len(hashes)
     /\ \E w \in 0..Len(file_mapping) :
          Raised("write_error", MasterPrefix(w))
  \/ /\ pc = "similarity_materialize"
     /\ i <= Len(similar_groups)
     /\ AllReadable(similar_groups[i])
     /\ \E w \in 0..Len(similar_groups[i]) :
          Raised("write_error", SimilarStepPrefix(w))

\* One invocation during which source files vanish and writes fail.
InitFail == Init0(TreesUpTo(MaxFailFiles, ImgNames(ImageExts), FailBlobs, TRUE))

NextFail == Next \/ Vanish \/ SourceReadFails \/ WriteFails

SpecFail == InitFail /\ [][NextFail]_vars

\* ------------------------------------------------------------ the upload
\* hf_uploader.py:72, the extensions of the files that are uploaded.
upload_extensions == {".jpg", ".jpeg", ".png", ".gif", ".webp", ".bmp", ".tiff"}

\* The base names a file under source_dir may have.
UploadNames == {Name("img", ".jpg"), Name("img", ".PNG"), Name("notes", ".txt")}

\* os.walk(source_dir): the files in walk order, each in a directory of
\* its own.
Listings(n) ==
  {[k \in 1..n |-> [dir |-> k, name |-> names[k]]] :
     names \in [1..n -> UploadNames]}

\* Lines 67-73: the files of the walk whose lower-cased extension is an
\* image extension.
ImageFilesOf(listing) ==
  SelectSeq(listing,
            LAMBDA path : Lower(Splitext(Basename(path))[2]) \in upload_extensions)

\* Line 152 (batch_size is positive: // is the floor division).
TotalBatches(n, batch_size) == (n + batch_size - 1) \div batch_size

\* The slice with one file more at its end.
BatchFiles_Overlap(image_files, batch_idx, batch_size) ==
  LET start_idx == batch_idx * batch_size
      e == (batch_idx + 1) * batch_size + 1
      end_idx == IF e < Len(image_files) THEN e ELSE Len(image_files)
  IN SubSeq(image_files, start_idx + 1, end_idx)

\* Lines 155-157: image_files[start_idx:end_idx]
BatchFiles(image_files, batch_idx, batch_size) ==
  LET start_idx == batch_idx * batch_size
      e == (batch_idx + 1) * batch_size
      end_idx == IF e < Len(image_files) THEN e ELSE Len(image_files)
  IN SubSeq(image_files, start_idx + 1, end_idx)

\* Lines 22-152: the call up to the batch loop.  Without HF_TOKEN (36-39),
\* when the repository cannot be created (53-60) or when the walk finds no
\* image file (75-77) the function returns False.
UploadCall ==
  /\ up.pc = "idle"
  /\ \E listing \in UNION {Listings(n) : n \in 0..MaxUploadFiles},
        batch_size \in 1..MaxBatch,
        hf_token \in BOOLEAN,
        repo \in {"exists", "created", "create_failed", "check_failed"} :
       LET image_files == ImageFilesOf(listing)
           started == [up EXCEPT !.listing = listing,
                                 !.batch_size = batch_size]
       IN IF ~hf_token \/ repo = "create_failed" \/ image_files = <<>>
          THEN up' = [started EXCEPT !.pc = "returned", !.ret = "False"]
          ELSE up' = [started EXCEPT
                        !.pc = "batches",
                        !.image_files = image_files,
                        !.total_batches = TotalBatches(Len(image_files), batch_size),
                        !.batch_idx = 0]
  /\ UNCHANGED <<tree, outputs, pc, i, locals, result, run, before, sc>>

\* Lines 154-197, one batch: its operations are built and committed; when
\* create_commit raises, the function returns False.
UploadBatch ==
  /\ up.pc = "batches"
  /\ up.batch_idx < up.total_batches
  /\ LET batch_files == BatchFiles(up.image_files, up.batch_idx, up.batch_size)
     IN \E committed \in BOOLEAN :
          LET tried == [up EXCEPT
                          !.attempts = Append(@, [idx |-> up.batch_idx,
                                                  files |-> batch_files,
                                                  card |-> up.batch_idx = 0,
                                                  ok |-> committed])]
          IN IF committed
             THEN up' = [tried EXCEPT !.batch_idx = @ + 1]
             ELSE up' = [tried EXCEPT !.pc = "returned", !.ret = "False"]
  /\ UNCHANGED <<tree, outputs, pc, i, locals, result, run, before, sc>>

\* Lines 199-200, after the last batch.
UploadReturn ==
  /\ up.pc = "batches"
  /\ up.batch_idx >= up.total_batches
  /\ up' = [up EXCEPT !.pc = "returned", !.ret = "True"]
  /\ UNCHANGED <<tree, outputs, pc, i, locals, result, run, before, sc>>

\* One call of upload_to_huggingface.
InitUpload == Init0({<<>>})

NextUpload == UploadCall \/ UploadBatch \/ UploadReturn

SpecUpload == InitUpload /\ [][NextUpload]_vars

\* ----------------------------------------------------------- the scraper
\* scraper.py:307-310, the crawler engines tried for every term.
engines == <<"GoogleImageCrawler", "BingImageCrawler">>

\* A download activity begins now and, with the sleep that follows it,
\* takes d units of the clock; it downloads n images.
Activity(s, what, d, n) ==
  [s EXCEPT !.started = @ \cup {[what |-> what, at |-> s.elapsed]},
            !.elapsed = @ + d,
            !.success_count = @ + n]

\* The images one activity may add: safe_download counts one at a time and
\* the loops stop at target_count (lines 239, 291).
Downloads(s) == {n \in 0..1 : s.success_count + n <= s.target_count}

\* main.py:80-86: the scraper is constructed (start_time is set, line 55)
\* and crawl_images is called.
CrawlCall ==
  /\ sc.pc = "idle"
  /\ \E session_duration \in 1..MaxDuration, target_count \in 1..MaxTarget,
        terms \in 1..MaxTerms :
       sc' = [sc EXCEPT !.pc = "while",
                        !.session_duration = session_duration,
                        !.target_count = target_count,
                        !.terms = terms]
  /\ UNCHANGED <<tree, outputs, pc, i, locals, result, run, before, up>>

\* Line 315, the test of the while loop.
WhileTest ==
  /\ sc.pc = "while"
  /\ sc' = IF /\ sc.elapsed < sc.session_duration
              /\ sc.success_count < sc.target_count
           THEN [sc EXCEPT !.pc = "term", !.term = 1]
           ELSE [sc EXCEPT !.pc = "returned"]
  /\ UNCHANGED <<tree, outputs, pc, i, locals, result, run, before, up>>

\* Lines 316-318: the next term, or the end of the for loop.
TermTest ==
  /\ sc.pc = "term"
  /\ sc' = IF sc.term > sc.terms \/ sc.success_count >= sc.target_count
           THEN [sc EXCEPT !.pc = "urls"]
           ELSE [sc EXCEPT !.pc = "engine", !.engine = 1]
  /\ UNCHANGED <<tree, outputs, pc, i, locals, result, run, before, up>>

\* Lines 323-330, one engine: the elapsed time is tested, the crawler
\* runs, the scraper sleeps.  run_crawler does not count its downloads.
EngineStep ==
  /\ sc.pc = "engine"
  /\ sc.engine <= Len(engines)
  /\ IF sc.elapsed > sc.session_duration
     THEN sc' = [sc EXCEPT !.pc = "returned"]
     ELSE \E d \in 1..MaxStep :
            sc' = [Activity(sc, engines[sc.engine], d, 0) EXCEPT
                     !.engine = @ + 1]
  /\ UNCHANGED <<tree, outputs, pc, i, locals, result, run, before, up>>

\* Lines 332-336, after the engines: the Selenium scrape when the count is
\* below 80% of the target, then the next term.
SeleniumStep ==
  /\ sc.pc = "engine"
  /\ sc.engine > Len(engines)
  /\ IF 10 * sc.success_count < 8 * sc.target_count
     THEN \E d \in 1..MaxStep, n \in Downloads(sc) :
            sc' = [Activity(sc, "selenium", d, n) EXCEPT
                     !.pc = "term", !.term = @ + 1]
     ELSE sc' = [sc EXCEPT !.pc = "term", !.term = @ + 1]
  /\ UNCHANGED <<tree, outputs, pc, i, locals, result, run, before, up>>

\* Lines 338-344, after the terms: the saved URL files are processed when
\* there are any, then the scraper sleeps and the while loop tests again.
UrlFilesStep ==
  /\ sc.pc = "urls"
  /\ \E txt \in BOOLEAN, d \in 1..MaxStep :
       IF txt
       THEN \E n \in Downloads(sc) :
              sc' = [Activity(sc, "url_file", d, n) EXCEPT !.pc = "while"]
       ELSE sc' = [sc EXCEPT !.pc = "while", !.elapsed = @ + d]
  /\ UNCHANGED <<tree, outputs, pc, i, locals, result, run, before, up>>

\* One scraping session.
InitCrawl == Init0({<<>>})

NextCrawl ==
  CrawlCall \/ WhileTest \/ TermTest \/ EngineStep \/ SeleniumStep
    \/ UrlFilesStep

SpecCrawl == InitCrawl /\ [][NextCrawl]_vars

\* ------------------------------------------------------------ the claims
Files == Range(tree)
Digest(f) == Md5(f.bytes)

\* The exact scan is over: exact_dup_groups is computed.
ScanDone == pc \notin {"init", "exact_scan"}

SameExactGroup(p, q) ==
  \E g \in DOMAIN exact_dup_groups :
    p \in Range(exact_dup_groups[g]) /\ q \in Range(exact_dup_groups[g])

\* Every group has at least 2 members, lists no path twice, and shares no
\* path with another group.
GroupsWellFormed ==
  /\ \A g \in DOMAIN exact_dup_groups :
       /\ Len(exact_dup_groups[g]) >= 2
       /\ \A j, k \in DOMAIN exact_dup_groups[g] :
            exact_dup_groups[g][j] = exact_dup_groups[g][k] => j = k
  /\ \A g, h \in DOMAIN exact_dup_groups :
       g # h => Range(exact_dup_groups[g]) \cap Range(exact_dup_groups[h]) = {}

\* C1 as stated: after the exact scan, any two files of the source tree
\* are in the same ExactGroup iff their content digests are equal; every
\* group has at least 2 members and no file is in two groups.
C1_AnyTwoFiles ==
  ScanDone =>
    /\ \A a, b \in Files :
         a # b => (SameExactGroup(a.path, b.path) <=> Digest(a) = Digest(b))
    /\ GroupsWellFormed

\* C1 amended: after the exact scan, any two files that were read are in
\* the same ExactGroup iff their content digests are equal; a file that
\* could not be read is in no group; every group has at least 2 members
\* and no file is in two groups.
C1_ReadFiles ==
  ScanDone =>
    /\ \A a, b \in Files :
         (a # b /\ a.readable /\ b.readable) =>
           (SameExactGroup(a.path, b.path) <=> Digest(a) = Digest(b))
    /\ \A a \in Files :
         ~a.readable => a.path \notin ExactDupFiles(exact_dup_groups)
    /\ GroupsWellFormed

\* A group was found beside a file of the same content that could not be
\* read.
C1_Witness ==
  /\ ScanDone
  /\ Len(exact_dup_groups) = 1
  /\ \E a \in Files :
       ~a.readable /\ Digest(a) = Digest(FileAt(exact_dup_groups[1][1]))

\* The number of places a path takes in the lists of file_mapping.
Listed(p) ==
  Cardinality({<<k, j>> \in (DOMAIN file_mapping) \X (1..Len(tree)) :
                 j <= Len(file_mapping[k].val) /\ file_mapping[k].val[j] = p})

\* C2 as stated: when the run completes, every file of the source tree is
\* in the original-path list of exactly one ConsolidatedEntry.
C2_EveryFile ==
  pc = "done" => \A f \in Files : Listed(f.path) = 1

\* C2 amended: when the run completes, every file that was read is in the
\* original-path list of exactly one ConsolidatedEntry, and a file that
\* could not be read is in none.
C2_EveryReadFile ==
  pc = "done" =>
    \A f \in Files : Listed(f.path) = (IF f.readable THEN 1 ELSE 0)

\* A run has completed with a group's entry or a singleton's entry beside
\* a file that could not be read.
C2_Witness ==
  /\ pc = "done"
  /\ Len(tree) = 3
  /\ Len(file_mapping) >= 1
  /\ \E f \in Files : ~f.readable

\* The counter is in use: line 63 has run.
Counting == pc \notin {"init", "exact_scan"}

\* C3: the counter starts at 1 and is one more than the number of entries
\* made so far, the k-th entry carrying number k; a step leaves it as it is
\* or adds exactly 1, and it adds 1 exactly when an entry is made.
C3_Counter ==
  /\ [](Counting =>
          /\ file_counter = Len(file_mapping) + 1
          /\ \A k \in DOMAIN file_mapping :
               file_mapping[k].key.stem = Format05(k))
  /\ [][Counting =>
          /\ file_counter' \in {file_counter, file_counter + 1}
          /\ (file_counter' = file_counter + 1
                <=> Len(file_mapping') = Len(file_mapping) + 1)
          /\ Len(file_mapping') >= Len(file_mapping)]_vars

\* A run has numbered a group and then a unique file.
C3_Witness ==
  /\ pc = "done"
  /\ file_counter = 3
  /\ Len(file_mapping[1].val) = 2
  /\ Len(file_mapping[2].val) = 1

\* C4: the value returned is the final counter minus 1, the number of
\* entries made, and the number of distinct digests among the files read;
\* an empty tree gives 0, no ExactGroup and no SimilarGroup, and its run
\* goes on until it returns.
C4_ReturnValue ==
  /\ pc = "done" =>
       /\ result = file_counter - 1
       /\ result = Len(file_mapping)
       /\ result = Cardinality({Digest(f) : f \in {g \in Files : g.readable}})
  /\ tree = <<>> =>
       /\ pc = "done" \/ ENABLED Next
       /\ pc = "done" =>
            result = 0 /\ exact_dup_groups = <<>> /\ similar_groups = <<>>

\* A run over a group, a unique file and an unreadable one has returned 2.
C4_Witness ==
  /\ pc = "done"
  /\ result = 2
  /\ Len(tree) = 3
  /\ \E f \in Files : ~f.readable

\* C5: no member of an ExactGroup is a member of a SimilarGroup, and no
\* fingerprint is computed for a member of an ExactGroup.
C5_Disjoint ==
  /\ \A s \in DOMAIN similar_groups :
       Range(similar_groups[s]) \cap ExactDupFiles(exact_dup_groups) = {}
  /\ \A k \in DOMAIN image_hashes :
       image_hashes[k].path \notin ExactDupFiles(exact_dup_groups)

\* A run ends with an ExactGroup of images and a SimilarGroup.
C5_Witness ==
  /\ pc = "done"
  /\ Len(exact_dup_groups) = 1
  /\ Decodable(FileAt(exact_dup_groups[1][1]).bytes)
  /\ Len(similar_groups) = 1

IsPrefix(s, t) == Len(s) <= Len(t) /\ SubSeq(t, 1, Len(s)) = s

\* The block of duplicates_index.txt for the g-th ExactGroup of this run.
BlockOf(g) ==
  [file |-> file_mapping[g].key,
   hash |-> Digest(FileAt(exact_dup_groups[g][1])),
   dups |-> exact_dup_groups[g]]

\* C6: duplicates_index.txt as it stood before the run is at every moment
\* a prefix of what it holds, and when the run completes it holds that
\* content followed by one block (filename, digest, all original paths)
\* per ExactGroup, in group order.
C6_AppendOnly ==
  /\ IsPrefix(before.dupIndex, dupIndex)
  /\ pc = "done" =>
       /\ Len(dupIndex) = Len(before.dupIndex) + Len(exact_dup_groups)
       /\ \A g \in DOMAIN exact_dup_groups :
            /\ dupIndex[Len(before.dupIndex) + g] = BlockOf(g)
            /\ \A p \in Range(exact_dup_groups[g]) :
                 Digest(FileAt(p)) = dupIndex[Len(before.dupIndex) + g].hash

\* A second run over the same duplicates has written the block of the
\* first run once more.
C6_Witness ==
  /\ pc = "done"
  /\ run = 2
  /\ Len(before.dupIndex) = 1
  /\ dupIndex = before.dupIndex \o before.dupIndex

\* original_paths.txt of a group directory, empty when it is not there.
PathsTxt(dirs, g) ==
  IF g <= Len(dirs) /\ OriginalPathsTxt \in DOMAIN dirs[g]
  THEN dirs[g][OriginalPathsTxt]
  ELSE <<>>

GroupIndexesKept ==
  /\ \A g \in DOMAIN before.exactDirs :
       IsPrefix(PathsTxt(before.exactDirs, g), PathsTxt(exactDirs, g))
  /\ \A g \in DOMAIN before.similarDirs :
       IsPrefix(PathsTxt(before.similarDirs, g), PathsTxt(similarDirs, g))

\* C7 as stated: when a run into an existing audit directory completes,
\* duplicates_index.txt, master_file_index.txt and every group's
\* original_paths.txt hold what they held before the run as a prefix.
C7_NoIndexTruncated ==
  pc = "done" =>
    /\ IsPrefix(before.dupIndex, dupIndex)
    /\ IsPrefix(before.masterIndex, masterIndex)
    /\ GroupIndexesKept

\* C7 amended: duplicates_index.txt and every group's original_paths.txt
\* hold at every moment what they held before the run as a prefix;
\* master_file_index.txt is not among them.
C7_AppendedIndexesKept ==
  /\ IsPrefix(before.dupIndex, dupIndex)
  /\ GroupIndexesKept

\* A second run has completed that added to duplicates_index.txt and to
\* the original_paths.txt of an exact and of a similar group, and that
\* left a master index of which the earlier one is no prefix.
C7_Witness ==
  /\ pc = "done"
  /\ run = 2
  /\ Len(before.dupIndex) >= 1
  /\ Len(dupIndex) > Len(before.dupIndex)
  /\ Len(before.exactDirs) >= 1
  /\ Len(PathsTxt(exactDirs, 1)) > Len(PathsTxt(before.exactDirs, 1))
  /\ before.masterIndex # <<>>
  /\ ~IsPrefix(before.masterIndex, masterIndex)

\* The master index has been written in this run.
MasterWritten ==
  pc \in {"similarity_gate", "similarity_scan", "similarity_materialize",
          "return", "done"}

\* C8: once written, master_file_index.txt lists exactly the entries of
\* this run: the k-th entry is the filename numbered k with all the paths
\* consolidated under it, every path listed is a file of this run's tree
\* that was read, and every such file is listed.
C8_MasterRewritten ==
  MasterWritten =>
    /\ Len(masterIndex) = file_counter - 1
    /\ Len(masterIndex) = Len(file_mapping)
    /\ \A k \in DOMAIN masterIndex :
         /\ masterIndex[k].file.stem = Format05(k)
         /\ masterIndex[k].file = file_mapping[k].key
         /\ masterIndex[k].origs = file_mapping[k].val
         /\ masterIndex[k].file \in DOMAIN consolidated
         /\ \A p \in Range(masterIndex[k].origs) :
              \E f \in Files : f.path = p /\ f.readable
    /\ \A f \in Files :
         f.readable =>
           \E k \in DOMAIN masterIndex : f.path \in Range(masterIndex[k].origs)

\* A second run has written a master index other than the one it found.
C8_Witness ==
  /\ pc = "done"
  /\ run = 2
  /\ Len(before.masterIndex) = 2
  /\ Len(masterIndex) = 1
  /\ masterIndex[1] # before.masterIndex[1]

\* The place of a path in the walk.
Pos(p) == CHOOSE k \in DOMAIN tree : tree[k].path = p

\* The content a copy put under a name of the consolidated directory.
ConsolidatedBytes(n) == consolidated[n][1].bytes

\* Two files of equal content and a third of another, all of them read.
ScenarioA ==
  /\ Len(tree) = 3
  /\ \A f \in Files : f.readable
  /\ Cardinality({Digest(f) : f \in Files}) = 2

\* C9: when a run into a new audit directory completes, the entries of the
\* ExactGroups come first and in the order in which their digests were
\* first seen, each group lists its members in the order of the walk and
\* the file copied forward is the first of them, and the singletons follow
\* in the order of the walk; with two files of equal content and a third of
\* another, the consolidated directory holds exactly 00001, a copy of the
\* group's first-seen member, and 00002, a copy of the unique file, and
\* duplicates_index.txt holds one block that lists both originals.
C9_ConsolidationOrder ==
  pc = "done" =>
    LET G == Len(exact_dup_groups)
        K == Len(file_mapping)
    IN /\ G <= K
       /\ \A k \in 1..K :
            /\ file_mapping[k].key.stem = Format05(k)
            /\ (k <= G) <=> (Len(file_mapping[k].val) >= 2)
            /\ k <= G => file_mapping[k].val = exact_dup_groups[k]
            /\ \A j \in 1..(Len(file_mapping[k].val) - 1) :
                 Pos(file_mapping[k].val[j]) < Pos(file_mapping[k].val[j + 1])
            /\ file_mapping[k].key.ext = file_mapping[k].val[1].name.ext
            /\ ConsolidatedBytes(file_mapping[k].key)
                 = FileAt(file_mapping[k].val[1]).bytes
       /\ \A k, l \in 1..K :
            (k < l /\ (l <= G \/ k > G)) =>
              Pos(file_mapping[k].val[1]) < Pos(file_mapping[l].val[1])
       /\ ScenarioA =>
            /\ K = 2 /\ G = 1
            /\ DOMAIN consolidated = {file_mapping[1].key, file_mapping[2].key}
            /\ Len(file_mapping[1].val) = 2
            /\ Len(file_mapping[2].val) = 1
            /\ Len(dupIndex) = 1
            /\ dupIndex[1].file = file_mapping[1].key
            /\ Range(dupIndex[1].dups) =
                 {f.path : f \in {g \in Files :
                     Digest(g) = Digest(FileAt(file_mapping[1].val[1]))}}

\* Scenario A with the unique file first in the walk: the run is complete
\* and the group, seen later, holds number 1.
C9_Witness ==
  /\ pc = "done"
  /\ ScenarioA
  /\ Digest(tree[1]) # Digest(tree[2])
  /\ Digest(tree[2]) = Digest(tree[3])
  /\ file_mapping[1].val = <<tree[2].path, tree[3].path>>
  /\ file_mapping[2].val = <<tree[1].path>>

\* C10 supposes three fingerprints a, b, c with Distance(a, b) = 3 and
\* Distance(a, c) = Distance(b, c) = 8.  The bits in which three
\* fingerprints differ lie in (a xor b) and (a xor c), at most 11 places
\* here, and flipping the same bits in all three keeps the distances: with
\* a = {} no b and c over 11 bits are at these distances, so no three
\* fingerprints of any width are.  (Distance(a, c) and Distance(a, b) +
\* Distance(b, c) have the same parity.)
NoScenarioBTriple ==
  \A b, c \in SUBSET (1..11) :
    ~(Distance({}, b) = 3 /\ Distance({}, c) = 8 /\ Distance(b, c) = 8)
\* A file that was read, whose content no other read file has and which
\* PIL cannot decode.
UndecodableUnique(f) ==
  /\ f.readable
  /\ ~Decodable(f.bytes)
  /\ \A g \in Files : (g # f /\ g.readable) => Digest(g) # Digest(f)

\* C11: a file with unique bytes that cannot be decoded as an image has
\* no fingerprint and is in no SimilarGroup at any moment, its decode
\* failure leaves the run able to go on, and when the run completes the
\* file is the one original of exactly one ConsolidatedEntry, which holds
\* its bytes.
C11_UndecodableIsSingleton ==
  \A f \in Files :
    UndecodableUnique(f) =>
      /\ \A k \in DOMAIN image_hashes : image_hashes[k].path # f.path
      /\ \A g \in DOMAIN similar_groups : f.path \notin Range(similar_groups[g])
      /\ \A g \in DOMAIN similarDirs :
           \A k \in DOMAIN PathsTxt(similarDirs, g) :
             PathsTxt(similarDirs, g)[k].kind = "line" =>
               PathsTxt(similarDirs, g)[k].orig # f.path
      /\ pc # "done" => ENABLED Next
      /\ pc = "done" =>
           /\ result >= 1
           /\ \E k \in DOMAIN file_mapping :
                /\ file_mapping[k].val = <<f.path>>
                /\ ConsolidatedBytes(file_mapping[k].key) = f.bytes
                /\ \A m \in DOMAIN file_mapping :
                     f.path \in Range(file_mapping[m].val) => m = k

\* A run over an undecodable file named as an image and two similar
\* images has completed with one SimilarGroup.
C11_Witness ==
  /\ pc = "done"
  /\ \E f \in Files :
       UndecodableUnique(f) /\ Splitext(Basename(f.path))[2] = ".jpg"
  /\ Len(similar_groups) = 1

\* The first walk has passed the file without recording a digest for it:
\* reading it raised, and line 55 logged the warning.
WasRead(p) == \E k \in DOMAIN hashes : p \in Range(hashes[k].val)
SkippedAtScan(f) == ScanDone /\ ~WasRead(f.path)

\* A file skipped by the first walk is in no ExactGroup, no
\* ConsolidatedEntry and no SimilarGroup, and has no fingerprint.
SkippedIsExcluded ==
  \A f \in Files :
    SkippedAtScan(f) =>
      /\ \A g \in DOMAIN exact_dup_groups : f.path \notin Range(exact_dup_groups[g])
      /\ Listed(f.path) = 0
      /\ \A k \in DOMAIN image_hashes : image_hashes[k].path # f.path
      /\ \A g \in DOMAIN similar_groups : f.path \notin Range(similar_groups[g])

\* C12 as stated: a source file that cannot be read when its digest is
\* computed is excluded from all further processing, and a source file
\* that cannot be read at any point of the run does not abort the run.
C12_UnreadableNeverAborts ==
  /\ SkippedIsExcluded
  /\ pc # "read_error"

\* Every file and every line of a group directory tree is still there
\* after the step.
DirsKept(dirs, dirsAfter) ==
  \A g \in DOMAIN dirs :
    /\ g \in DOMAIN dirsAfter
    /\ \A n \in DOMAIN dirs[g] :
         /\ n \in DOMAIN dirsAfter[g]
         /\ IsPrefix(dirs[g][n], dirsAfter[g][n])

\* The step has removed nothing that the run had written.
WrittenKept ==
  /\ \A n \in DOMAIN consolidated :
       n \in DOMAIN consolidated' /\ consolidated'[n] = consolidated[n]
  /\ IsPrefix(dupIndex, dupIndex')
  /\ DirsKept(exactDirs, exactDirs')
  /\ DirsKept(similarDirs, similarDirs')

\* C13: a write failure at any step propagates out of the run: once it
\* is raised no step of the run is taken and no count is returned, and the
\* step that raises it leaves in place every file and line written before.
C13_WriteFailurePropagates ==
  /\ [](pc = "write_error" => (result = -1 /\ ~ENABLED NextFail))
  /\ [][pc' = "write_error" => (pc # "write_error" /\ WrittenKept)]_vars

\* The master index could not be written after an ExactGroup of two and a
\* unique file were consolidated: their copies and indexes are in place.
C13_Witness ==
  /\ pc = "write_error"
  /\ Cardinality(DOMAIN consolidated) = 2
  /\ Len(dupIndex) = 1
  /\ Len(PathsTxt(exactDirs, 1)) = 2
  /\ masterIndex = <<>>

\* The files of the walk with an image extension, in walk order.
ImagesUnder(listing) ==
  SelectSeq(listing,
            LAMBDA path : path.name.ext \in {".jpg", ".JPG", ".png", ".PNG"})

\* C14: the batches tried are, in index order and each once, the
\* consecutive slices of at most batch_size of the image files under
\* source_dir; only the last batch tried can have failed, and then the
\* function has returned False; when it returns True every batch was
\* committed and every image file is in exactly one of them.
C14_Batches ==
  LET imgs == ImagesUnder(up.listing)
      bs == up.batch_size
      tried == up.attempts
  IN /\ \A k \in DOMAIN tried :
          /\ tried[k].idx = k - 1
          /\ Len(tried[k].files) \in 1..bs
          /\ \A j \in DOMAIN tried[k].files :
               /\ (k - 1) * bs + j <= Len(imgs)
               /\ tried[k].files[j] = imgs[(k - 1) * bs + j]
          /\ k < Len(tried) => tried[k].ok
          /\ ~tried[k].ok => (up.pc = "returned" /\ up.ret = "False")
     /\ up.ret = "True" =>
          /\ \A k \in DOMAIN tried : tried[k].ok
          /\ \A m \in DOMAIN imgs :
               Cardinality({<<k, j>> \in (DOMAIN tried) \X (1..bs) :
                              /\ j <= Len(tried[k].files)
                              /\ tried[k].files[j] = imgs[m]}) = 1

\* Three image files were uploaded in a batch of two and a batch of one.
C14_Witness ==
  /\ up.ret = "True"
  /\ up.batch_size = 2
  /\ Len(up.attempts) = 2
  /\ Len(up.attempts[2].files) = 1

\* C15 as stated: no download activity (crawler-engine run, Selenium
\* scrape, URL-file processing) of crawl_images begins when more than
\* session_duration seconds have elapsed since the scraper was constructed.
C15_NothingStartsAfterDuration ==
  \A a \in sc.started : a.at <= sc.session_duration

\* The clustering loop has run.
Clustered == pc \in {"similarity_materialize", "done"}

\* The fingerprint of the file at path p.
Fingerprint(p) == Phash(FileAt(p).bytes)

\* The files that were given a fingerprint and are in no SimilarGroup.
Ungrouped ==
  {image_hashes[k].path : k \in DOMAIN image_hashes}
    \ UNION {Range(similar_groups[g]) : g \in DOMAIN similar_groups}

\* C16: every SimilarGroup has at least 2 members, every member but the
\* first is at Hamming distance at most 5 from the first and after it in
\* scan order, no path is in two groups or twice in one, and two
\* fingerprinted files left in no group are more than 5 apart (a seed that
\* attracted no file was emitted in no group).
C16_SimilarGroups ==
  Clustered =>
    /\ \A g \in DOMAIN similar_groups :
         /\ Len(similar_groups[g]) >= 2
         /\ \A j \in 2..Len(similar_groups[g]) :
              /\ Distance(Fingerprint(similar_groups[g][1]),
                          Fingerprint(similar_groups[g][j])) <= 5
              /\ Pos(similar_groups[g][1]) < Pos(similar_groups[g][j])
    /\ \A g, h \in DOMAIN similar_groups :
         \A j \in DOMAIN similar_groups[g], k \in DOMAIN similar_groups[h] :
           similar_groups[g][j] = similar_groups[h][k] => (g = h /\ j = k)
    /\ \A p, q \in Ungrouped :
         p # q => Distance(Fingerprint(p), Fingerprint(q)) > 5

\* A seed has attracted two files that are 8 apart from each other, and a
\* fourth file, far from all, is in no group.
C16_Witness ==
  /\ pc = "done"
  /\ Len(similar_groups) = 1
  /\ Len(similar_groups[1]) = 3
  /\ Distance(Fingerprint(similar_groups[1][2]),
              Fingerprint(similar_groups[1][3])) = 8
  /\ Ungrouped # {}

\* The group was materialized into the directory dir without a collision:
\* original_paths.txt holds one line per member, in order, the destination
\* names differ from each other and from original_paths.txt, and the
\* directory holds, besides original_paths.txt, exactly one copy per
\* member, with the member's bytes.
CollisionFree(dir, group) ==
  /\ OriginalPathsTxt \in DOMAIN dir
  /\ LET lines == dir[OriginalPathsTxt]
     IN /\ Len(lines) = Len(group)
        /\ \A k \in DOMAIN lines :
             /\ lines[k].kind = "line"
             /\ lines[k].orig = group[k]
             /\ lines[k].dest # OriginalPathsTxt
             /\ lines[k].dest \in DOMAIN dir
             /\ dir[lines[k].dest] =
                  <<[kind |-> "data", bytes |-> FileAt(group[k]).bytes]>>
             /\ \A j \in DOMAIN lines : j # k => lines[j].dest # lines[k].dest
        /\ Cardinality(DOMAIN dir \ {OriginalPathsTxt}) = Len(group)

\* C17 as stated: every ExactGroup and SimilarGroup materialized into a
\* fresh output root has one copy per member under pairwise distinct
\* destination names, none of them original_paths.txt, no copy overwritten,
\* and one line of original_paths.txt per member.
C17_CollisionSafe ==
  pc = "done" =>
    /\ \A g \in DOMAIN exact_dup_groups :
         CollisionFree(exactDirs[g], exact_dup_groups[g])
    /\ \A g \in DOMAIN similar_groups :
         CollisionFree(similarDirs[g], similar_groups[g])

\* Some file of the source tree has one of the seven image extensions, in
\* lower or in upper case.
HasImageExtension ==
  \E f \in Files :
    f.path.name.ext \in
      {".jpg", ".jpeg", ".png", ".gif", ".bmp", ".tiff", ".webp",
       ".JPG", ".JPEG", ".PNG", ".GIF", ".BMP", ".TIFF", ".WEBP"}

\* C18: when no file of the source tree has an image extension the
\* similarity phases are never entered: no fingerprint is computed, no
\* SimilarGroup is emitted and no similar_group_N directory is created;
\* when some file has one, after the second walk every file outside the
\* ExactGroups that can be opened and decoded has a fingerprint, whatever
\* its own extension.
C18_ExtensionGate ==
  /\ ~HasImageExtension =>
       /\ pc \notin {"similarity_scan", "similarity_materialize"}
       /\ image_hashes = <<>>
       /\ similar_groups = <<>>
       /\ similarDirs = <<>>
  /\ (HasImageExtension /\ pc = "done") =>
       \A f \in Files :
         (/\ f.readable
          /\ Decodable(f.bytes)
          /\ \A g \in DOMAIN exact_dup_groups :
               f.path \notin Range(exact_dup_groups[g]))
           => \E k \in DOMAIN image_hashes : image_hashes[k].path = f.path

\* The only image extension of the tree is upper-case, and a file named
\* .txt is a member of the SimilarGroup of the run.
C18_Witness ==
  /\ pc = "done"
  /\ \A f \in Files : f.path.name.ext \in {".JPG", ".txt"}
  /\ Len(similar_groups) = 1
  /\ \E k \in DOMAIN similar_groups[1] : similar_groups[1][k].name.ext = ".txt"

\* The phases in their order: INIT, EXACT_SCAN, EXACT_MATERIALIZE,
\* CONSOLIDATE_UNIQUES, the master index emitted, SIMILARITY_SCAN,
\* SIMILARITY_MATERIALIZE, the return, DONE.
PhaseRank(p) ==
  CASE p = "init" -> 0
    [] p = "exact_scan" -> 1
    [] p = "exact_materialize" -> 2
    [] p = "consolidate" -> 3
    [] p = "similarity_gate" -> 4
    [] p = "similarity_scan" -> 5
    [] p = "similarity_materialize" -> 6
    [] p = "return" -> 7
    [] p = "done" -> 8

\* A step stays in its phase, moves to the next one, or leaves out the
\* similarity phases.
PhaseStep(p, q) ==
  \/ PhaseRank(q) = PhaseRank(p)
  \/ PhaseRank(q) = PhaseRank(p) + 1 /\ PhaseRank(p) < 6
  \/ p = "similarity_gate" /\ q = "return"
  \/ p = "similarity_materialize" /\ q = "done"
  \/ p = "return" /\ q = "done"

\* C19: the phases follow each other in order and none is entered again;
\* a step that writes an output file comes after the exact scan has
\* visited the whole tree; when the master index is written the loops over
\* the groups and the unique files are over, every file that was read has
\* its ConsolidatedEntry and every entry's file is in consolidated_files;
\* from then on the counter, the consolidated directory,
\* duplicates_index.txt and the master index do not change.
C19_PhaseOrder ==
  /\ [][PhaseStep(pc, pc')]_vars
  /\ [][outputs' # outputs =>
          /\ PhaseRank(pc) >= 2
          /\ \A f \in Files : f.readable => WasRead(f.path)]_vars
  /\ [][(PhaseRank(pc) < 4 /\ PhaseRank(pc') >= 4) =>
          /\ pc = "consolidate" /\ pc' = "similarity_gate"
          /\ masterIndex' = MasterEntries(file_mapping)
          /\ \A f \in Files : f.readable => Listed(f.path) = 1
          /\ \A k \in DOMAIN file_mapping :
               file_mapping[k].key \in DOMAIN consolidated
          /\ UNCHANGED <<consolidated, file_mapping, file_counter>>]_vars
  /\ [][PhaseRank(pc) >= 4 =>
          UNCHANGED <<file_counter, consolidated, dupIndex, masterIndex>>]_vars

\* A run has gone through every phase: it consolidated an ExactGroup and a
\* unique file, and fingerprinted the unique file without finding a group.
C19_Witness ==
  /\ pc = "done"
  /\ Len(exact_dup_groups) = 1
  /\ Len(file_mapping) = 2
  /\ similar_groups = <<>>
  /\ image_hashes # <<>>

\* The files upload_to_huggingface finds when it walks consolidated_files
\* (hf_uploader.py:67-73).
Uploaded ==
  {n \in DOMAIN consolidated : Lower(Splitext(n)[2]) \in upload_extensions}

\* C20 as stated: when a run into an output root has completed, whatever
\* ran into it before, the files of consolidated_files are exactly the
\* filenames of the master index just written, at most one per sequence
\* number, and the publisher uploads none that the index does not list.
C20_ConsolidatedIsCurrentSet ==
  pc = "done" =>
    LET current == {masterIndex[k].file : k \in DOMAIN masterIndex}
    IN /\ DOMAIN consolidated = current
       /\ \A n, m \in DOMAIN consolidated : n.stem = m.stem => n = m
       /\ Uploaded \subseteq current

====
